---- MODULE Spec2Model ----
(***************************************************************************)
(* Trade-leadership matching of the polymarket copy-trading bot scripts.   *)
(*                                                                         *)
(*   compareTraders.ts        findMatchingTrades, calculateSummaries       *)
(*   findProfitableTraders.ts analyzeMarkets (per-market grouping)         *)
(*                                                                         *)
(* Each script is a batch run: its input is what the fetch functions have  *)
(* returned, and every step of its main() is one action.                   *)
(***************************************************************************)
EXTENDS Integers, Sequences, FiniteSets, TLC

VARIABLES
    script,            \* which program runs: "compare", "leaders" or "first";
                       \* "rank" is rankTraders on statistics of a longer
                       \* analysis, "normalize" a normalizer on one record,
                       \* "activity" fetchTraderActivity for one trader
    pc,                \* position in that program's main()
    traderData,        \* compareTraders main: TraderTrades[] (address, trades)
    matched,           \* compareTraders main: MatchedTrade[]
    summaries,         \* compareTraders main: ComparisonSummary[]
    marketTrades,      \* analyzeMarkets: sortedTrades of the market just analysed
    traderFirstTrade,  \* analyzeMarkets: the Map built for that market
    traderStats,       \* analyzeMarkets: Map<string, TraderStats>
    processedMarkets,  \* analyzeMarkets: number of markets taken from the list
    ranked,            \* main: what rankTraders returned
    traderOrder,       \* find-first main: the Map of traders by first appearance
    response,          \* one record of response.data, as the API sent it
    normalizer,        \* the function that read it
    normalizedTrade,   \* the Trade it made of the record
    MAX_TRADES_LIMIT,  \* parseInt(process.env.COMPARE_MAX_TRADES || '1000')
    allTrades,         \* fetchTraderActivity: the trades collected, as runs
    offset,            \* fetchTraderActivity: offset of the next round
    hasMore,           \* fetchTraderActivity: the loop flag
    threw,             \* an error has left fetchTraderActivity
    received,          \* history: the trades of the batches added, as runs
    failedRequests,    \* history: the requests that failed
    foldedSamples      \* history: per trader, the number and the sums of the
                       \* timeToMarket and position samples folded so far

vars == <<script, pc, traderData, matched, summaries,
          marketTrades, traderFirstTrade, traderStats, processedMarkets,
          ranked, traderOrder, response, normalizer, normalizedTrade,
          MAX_TRADES_LIMIT, allTrades, offset, hasMore, threw, received,
          failedRequests,
          foldedSamples>>

compareVars == <<traderData, matched, summaries>>
fetchVars == <<response, normalizer, normalizedTrade>>
activityVars == <<MAX_TRADES_LIMIT, allTrades, offset, hasMore, threw, received,
                  failedRequests>>
leaderVars == <<marketTrades, traderFirstTrade, traderStats, processedMarkets,
                ranked, traderOrder, foldedSamples>>

----------------------------------------------------------------------------
(* Bounds and input domains *)

MaxTraders == 3        \* addresses given to compareTraders (main needs >= 2)
MaxTrades == 2         \* trades fetched for one trader
MaxTotalTrades == 4    \* trades over all compared traders
MaxMarketTrades == 2   \* trades returned for one market by fetchMarketTrades
MaxMarkets == 3        \* markets handed to analyzeMarkets
MaxLastMarketTrades == 1   \* trades of the last of them, kept short
MaxFirstTrades == 3    \* trades of the market of the find-first script
MaxRanked == 3         \* trader statistics handed to rankTraders on their own
MaxRankedTied == 7     \* the same, for traders that differ in volume only

Addresses == {"0xaaa", "0xbbb", "0xccc"}
Conditions == {"M1", "M2"}
\* Unix seconds: 160 - 100 is inside the 24 hour window, 86560 - 160 is
\* exactly the window and 86560 - 100 is outside it.
Timestamps == {100, 160, 86560}

\* parseInt(process.env.COMPARE_TIME_WINDOW_HOURS || '24')
TIME_WINDOW_HOURS == 24

\* Lexicographic order of the lower-cased addresses
AddrRank(a) == CASE a = "0xaaa" -> 1 [] a = "0xbbb" -> 2 [] a = "0xccc" -> 3

----------------------------------------------------------------------------
(* Helpers *)

Abs(x) == IF x < 0 THEN -x ELSE x

SetMin(S) == CHOOSE x \in S : \A y \in S : x <= y

RECURSIVE SumSeq(_)
SumSeq(s) == IF s = <<>> THEN 0 ELSE Head(s) + SumSeq(Tail(s))

RECURSIVE Gcd(_, _)
Gcd(a, b) == IF b = 0 THEN a ELSE Gcd(b, a % b)

\* The exact value of the JavaScript quotient total / count (count > 0), kept
\* as a fraction in lowest terms.
Quotient(total, count) ==
    LET g == Gcd(Abs(total), count)
    IN  [num |-> total \div g, den |-> count \div g]

Zero == [num |-> 0, den |-> 1]

\* Map lookup: the first of the indices S of the entries with the key, 0 when
\* the Map has no such entry
FirstIndex(S) == IF S = {} THEN 0 ELSE SetMin(S)

\* Array.prototype.sort((a, b) => a.timestamp - b.timestamp): a stable sort,
\* ascending by timestamp.
InsertByTimestamp(sorted, x) ==
    LET k == Cardinality({i \in 1..Len(sorted) : sorted[i].timestamp <= x.timestamp})
    IN  SubSeq(sorted, 1, k) \o <<x>> \o SubSeq(sorted, k + 1, Len(sorted))

RECURSIVE SortByTimestampFrom(_, _)
SortByTimestampFrom(sorted, rest) ==
    IF rest = <<>> THEN sorted
    ELSE SortByTimestampFrom(InsertByTimestamp(sorted, Head(rest)), Tail(rest))

\* Mutant: the array is left in arrival order
KeepArrivalOrder(s) == s

SortByTimestamp(s) == SortByTimestampFrom(<<>>, s)

IsSortedByTimestamp(s) ==
    \A i \in 1..Len(s) - 1 : s[i].timestamp <= s[i + 1].timestamp

----------------------------------------------------------------------------
(* compareTraders.ts: findMatchingTrades *)

\* The (trader, trade) visits of the two nested loops, in loop order
RECURSIVE Visits(_)
Visits(td) ==
    IF td = <<>> THEN <<>>
    ELSE [k \in 1..Len(Head(td).trades) |->
              [address |-> Head(td).address, trade |-> Head(td).trades[k]]]
         \o Visits(Tail(td))

\* Mutant: every visit opens a new trader entry of the condition
AddTradeNoDedup(tbc, address, trade) ==
    LET ci   == FirstIndex({i \in 1..Len(tbc) : tbc[i].conditionId = trade.conditionId})
        tbc1 == IF ci = 0
                THEN Append(tbc, [conditionId |-> trade.conditionId, traderMap |-> <<>>])
                ELSE tbc
        c    == IF ci = 0 THEN Len(tbc1) ELSE ci
    IN  [tbc1 EXCEPT ![c].traderMap =
            Append(@, [address |-> address, trades |-> <<trade>>])]

\* One pass of the inner loop body: tradesByCondition is a Map of Maps, kept
\* here as sequences in insertion order (the order Map iteration follows).
AddTrade(tbc, address, trade) ==
    LET ci   == FirstIndex({i \in 1..Len(tbc) : tbc[i].conditionId = trade.conditionId})
        tbc1 == IF ci = 0
                THEN Append(tbc, [conditionId |-> trade.conditionId, traderMap |-> <<>>])
                ELSE tbc
        c    == IF ci = 0 THEN Len(tbc1) ELSE ci
        tm   == tbc1[c].traderMap
        ai   == FirstIndex({i \in 1..Len(tm) : tm[i].address = address})
        tm1  == IF ai = 0
                THEN Append(tm, [address |-> address, trades |-> <<>>])
                ELSE tm
        a    == IF ai = 0 THEN Len(tm1) ELSE ai
    IN  [tbc1 EXCEPT ![c].traderMap =
            [tm1 EXCEPT ![a].trades = Append(@, trade)]]

RECURSIVE GroupVisits(_, _)
GroupVisits(tbc, visits) ==
    IF visits = <<>> THEN tbc
    ELSE GroupVisits(AddTrade(tbc, Head(visits).address, Head(visits).trade),
                     Tail(visits))

TradesByCondition(td) == GroupVisits(<<>>, Visits(td))

timeWindowSeconds == TIME_WINDOW_HOURS * 3600

\* The first trade of each trader of the condition
AllTraderTrades(traderMap) ==
    [k \in 1..Len(traderMap) |->
        LET firstTradeForCondition == SortByTimestamp(traderMap[k].trades)[1]
        IN  [address   |-> traderMap[k].address,
             trade     |-> firstTradeForCondition,
             timestamp |-> firstTradeForCondition.timestamp]]

\* Mutant: the inner loop starts at j = i
IndexPairsFromSelf(n) ==
    SelectSeq([k \in 1..n * n |-> <<((k - 1) \div n) + 1, ((k - 1) % n) + 1>>],
              LAMBDA p : p[1] <= p[2])

\* The (i, j) index pairs of the two nested loops, i < j, in loop order
IndexPairs(n) ==
    SelectSeq([k \in 1..n * n |-> <<((k - 1) \div n) + 1, ((k - 1) % n) + 1>>],
              LAMBDA p : p[1] < p[2])

\* Mutant: a gap equal to the window is dropped
WithinWindowStrict(diff) == Abs(diff) < timeWindowSeconds

WithinWindow(diff) == Abs(diff) <= timeWindowSeconds

\* Mutant: the trader supplied later always leads
LeaderIsTrader2(t1, t2, diff) == t2.address

\* Mutant: the comparison is turned around
LeaderOnPositive(t1, t2, diff) == IF diff >= 0 THEN t2.address ELSE t1.address

\* Mutant: a tie goes to trader1
LeaderStrict(t1, t2, diff) == IF diff < 0 THEN t2.address ELSE t1.address

Leader(t1, t2, diff) == IF diff <= 0 THEN t2.address ELSE t1.address

TimeDiffs(att) ==
    LET kept == SelectSeq(IndexPairs(Len(att)),
                    LAMBDA p : WithinWindow(att[p[2]].timestamp - att[p[1]].timestamp))
    IN  [k \in 1..Len(kept) |->
            LET t1   == att[kept[k][1]]
                t2   == att[kept[k][2]]
                diff == t2.timestamp - t1.timestamp
            IN  [trader1     |-> t1.address,
                 trader2     |-> t2.address,
                 diffSeconds |-> diff,
                 leader      |-> Leader(t1, t2, diff)]]

EnoughTraders(traderMap) == ~(Len(traderMap) < 2)

\* Mutant: only the traders of some gap record are listed
MatchOfPairedOnly(entry) ==
    LET att == AllTraderTrades(entry.traderMap)
        tds == TimeDiffs(att)
    IN  [conditionId  |-> entry.conditionId,
         traderTrades |-> SelectSeq(att, LAMBDA t :
                              \E i \in 1..Len(tds) :
                                  t.address \in {tds[i].trader1, tds[i].trader2}),
         timeDiffs    |-> tds]

MatchOf(entry) ==
    LET att == AllTraderTrades(entry.traderMap)
    IN  [conditionId  |-> entry.conditionId,
         traderTrades |-> att,
         timeDiffs    |-> TimeDiffs(att)]

\* Mutant: a market is kept whatever its gap records
AlwaysKept(m) == TRUE

HasTimeDiffs(m) == Len(m.timeDiffs) > 0

\* The matched list before the final sort
MatchedUnsorted(td) ==
    LET tbc  == TradesByCondition(td)
        many == SelectSeq(tbc, LAMBDA e : EnoughTraders(e.traderMap))
        ms   == [k \in 1..Len(many) |-> MatchOf(many[k])]
    IN  SelectSeq(ms, HasTimeDiffs)

\* Math.min(...m.traderTrades.map((t) => t.timestamp))
MinTime(m) == SetMin({m.traderTrades[i].timestamp : i \in 1..Len(m.traderTrades)})

\* matched.sort((a, b) => bTime - aTime): stable, most recent first
InsertByMinTime(sorted, x) ==
    LET k == Cardinality({i \in 1..Len(sorted) : MinTime(sorted[i]) >= MinTime(x)})
    IN  SubSeq(sorted, 1, k) \o <<x>> \o SubSeq(sorted, k + 1, Len(sorted))

RECURSIVE SortByMinTimeFrom(_, _)
SortByMinTimeFrom(sorted, rest) ==
    IF rest = <<>> THEN sorted
    ELSE SortByMinTimeFrom(InsertByMinTime(sorted, Head(rest)), Tail(rest))

\* Mutant: the list is returned in the order the markets were met
KeepMarketOrder(ms) == ms

SortMostRecentFirst(ms) == SortByMinTimeFrom(<<>>, ms)

findMatchingTrades(td) == SortMostRecentFirst(MatchedUnsorted(td))

----------------------------------------------------------------------------
(* compareTraders.ts: calculateSummaries *)

InMatch(match, address) ==
    \E i \in 1..Len(match.traderTrades) : match.traderTrades[i].address = address

\* Mutant: a record is reached only by its trader1
TouchesAsTrader1(diff, address) == diff.trader1 = address

Touches(diff, address) == ~(diff.trader1 # address /\ diff.trader2 # address)

\* Mutant: trader1 of a record is taken for its leader
IsTrader1(diff, address) == diff.trader1 = address

IsLeader(diff, address) == diff.leader = address

RECURSIVE Concat(_)
Concat(ss) == IF ss = <<>> THEN <<>> ELSE Head(ss) \o Concat(Tail(ss))

\* The gap records the two inner loops reach for one trader, in loop order
DiffsOf(ms, address) ==
    LET mine == SelectSeq(ms, LAMBDA m : InMatch(m, address))
    IN  Concat([k \in 1..Len(mine) |->
                   SelectSeq(mine[k].timeDiffs, LAMBDA d : Touches(d, address))])

AbsDiffs(ds) == [k \in 1..Len(ds) |-> Abs(ds[k].diffSeconds)]

\* Mutant: the quotient without the test of the count; 0 / 0 is NaN, kept as
\* the fraction 0/0
AverageUnguarded(total, count) ==
    IF count = 0 THEN [num |-> 0, den |-> 0] ELSE Quotient(total, count)

\* count > 0 ? total / count : 0
Average(total, count) == IF count > 0 THEN Quotient(total, count) ELSE Zero

\* Mutant: one count per gap record that touches the trader
CountTouchingDiffs(ms, address) == Len(DiffsOf(ms, address))

MatchedTradeCount(ms, address) ==
    Len(SelectSeq(ms, LAMBDA m : InMatch(m, address)))

\* Mutant: the markets traded, not the trades
MarketsTradedOf(trader) ==
    Cardinality({trader.trades[i].conditionId : i \in 1..Len(trader.trades)})

\* trader.trades.length
TotalTradesOf(trader) == Len(trader.trades)

SummaryOf(ms, trader) ==
    LET diffs   == DiffsOf(ms, trader.address)
        leads   == SelectSeq(diffs, LAMBDA d : IsLeader(d, trader.address))
        follows == SelectSeq(diffs, LAMBDA d : ~IsLeader(d, trader.address))
    IN  [trader               |-> trader.address,
         totalTrades          |-> TotalTradesOf(trader),
         matchedTrades        |-> MatchedTradeCount(ms, trader.address),
         timesFirst           |-> Len(leads),
         avgLeadTimeSeconds   |-> Average(SumSeq(AbsDiffs(leads)), Len(leads)),
         avgFollowTimeSeconds |-> Average(SumSeq(AbsDiffs(follows)), Len(follows))]

\* summaries.sort((a, b) => b.timesFirst - a.timesFirst): stable, descending
InsertByTimesFirst(sorted, x) ==
    LET k == Cardinality({i \in 1..Len(sorted) : sorted[i].timesFirst >= x.timesFirst})
    IN  SubSeq(sorted, 1, k) \o <<x>> \o SubSeq(sorted, k + 1, Len(sorted))

RECURSIVE SortByTimesFirstFrom(_, _)
SortByTimesFirstFrom(sorted, rest) ==
    IF rest = <<>> THEN sorted
    ELSE SortByTimesFirstFrom(InsertByTimesFirst(sorted, Head(rest)), Tail(rest))

\* Mutant: nothing matched, nothing to summarise
SummariesOfMatchesOnly(ms, td) ==
    IF ms = <<>> THEN <<>>
    ELSE SortByTimesFirstFrom(<<>>, [k \in 1..Len(td) |-> SummaryOf(ms, td[k])])

calculateSummaries(ms, td) ==
    SortByTimesFirstFrom(<<>>, [k \in 1..Len(td) |-> SummaryOf(ms, td[k])])

----------------------------------------------------------------------------
(* findProfitableTraders.ts: analyzeMarkets *)

\* An owner that fails the test `if (!trader) continue`: the record has no
\* proxyWallet, or an empty one
NoOwner == "<undefined>"
Owners == {"0xaaa", "0xbbb", NoOwner}
\* Unix seconds of the trades of one market
MarketTimestamps == {100, 160}

\* The not-a-number that `t.size * t.price` yields when a factor is missing or
\* not numeric, kept apart from the sizes, which are positive
NaN == -1

\* What fetchMarketTrades can put in usdcSize
UsdcSizes == {1, 2, NaN}

\* JavaScript a + b on numbers: a NaN operand makes the sum NaN
Plus(a, b) == IF a = NaN \/ b = NaN THEN NaN ELSE a + b


\* parseInt(process.env.LEADER_TOP_N || '5')
TOP_N_THRESHOLD == 5

\* markets[k].conditionId of the list handed to analyzeMarkets
MarketId(k) == <<"M1", "M2", "M3", "M4", "M5", "M6">>[k]

\* Mutant: the record without a trader is grouped like any other
GroupTradeKeepAll(tft, trade) ==
    LET i == FirstIndex({j \in 1..Len(tft) : tft[j].trader = trade.owner})
    IN  IF i = 0
        THEN Append(tft, [trader    |-> trade.owner,
                          timestamp |-> trade.timestamp,
                          volume    |-> trade.usdcSize,
                          position  |-> Len(tft) + 1])
        ELSE [tft EXCEPT ![i].volume = Plus(@, trade.usdcSize)]

\* The body of the loop over sortedTrades
GroupTrade(tft, trade) ==
    IF trade.owner = NoOwner THEN tft
    ELSE LET i == FirstIndex({j \in 1..Len(tft) : tft[j].trader = trade.owner})
         IN  IF i = 0
             THEN Append(tft, [trader    |-> trade.owner,
                               timestamp |-> trade.timestamp,
                               volume    |-> trade.usdcSize,
                               position  |-> Len(tft) + 1])
             ELSE [tft EXCEPT ![i].volume = Plus(@, trade.usdcSize)]

RECURSIVE GroupTrades(_, _)
GroupTrades(tft, trades) ==
    IF trades = <<>> THEN tft
    ELSE GroupTrades(GroupTrade(tft, Head(trades)), Tail(trades))

TraderFirstTrade(sortedTrades) == GroupTrades(<<>>, sortedTrades)

NewStats(trader) ==
    [address             |-> trader,
     timesFirst          |-> 0,
     timesInTopN         |-> 0,
     totalVolume         |-> 0,
     avgPositionInMarket |-> Zero,
     marketsTraded       |-> {},
     avgTimeToMarket     |-> Zero,
     tradeCount          |-> 0]

\* Mutant: the old average is not weighted by the samples it stands for
FoldAverageUnweighted(avg, n, sample) ==
    Quotient(avg.num + sample * avg.den, avg.den * n)

\* (avg * (n - 1) + sample) / n, exactly
FoldAverage(avg, n, sample) ==
    Quotient(avg.num * (n - 1) + sample * avg.den, avg.den * n)

\* Mutant: the second trader of a market counts as first as well
UpdateStatsFirstTwo(stats, data, conditionId, firstTradeTime) ==
    LET i0 == FirstIndex({j \in 1..Len(stats) : stats[j].address = data.trader})
        st == IF i0 = 0 THEN Append(stats, NewStats(data.trader)) ELSE stats
        i  == IF i0 = 0 THEN Len(st) ELSE i0
        n  == st[i].tradeCount + 1
    IN  [st EXCEPT ![i] =
            [@ EXCEPT
                !.marketsTraded = @ \cup {conditionId},
                !.totalVolume = Plus(@, data.volume),
                !.tradeCount = n,
                !.avgTimeToMarket = FoldAverage(@, n, data.timestamp - firstTradeTime),
                !.avgPositionInMarket = FoldAverage(@, n, data.position),
                !.timesFirst = IF data.position <= 2 THEN @ + 1 ELSE @,
                !.timesInTopN = IF data.position <= TOP_N_THRESHOLD THEN @ + 1 ELSE @]]

\* The body of the loop over traderFirstTrade.entries()
UpdateStats(stats, data, conditionId, firstTradeTime) ==
    LET i0 == FirstIndex({j \in 1..Len(stats) : stats[j].address = data.trader})
        st == IF i0 = 0 THEN Append(stats, NewStats(data.trader)) ELSE stats
        i  == IF i0 = 0 THEN Len(st) ELSE i0
        n  == st[i].tradeCount + 1
    IN  [st EXCEPT ![i] =
            [@ EXCEPT
                !.marketsTraded = @ \cup {conditionId},
                !.totalVolume = Plus(@, data.volume),
                !.tradeCount = n,
                !.avgTimeToMarket = FoldAverage(@, n, data.timestamp - firstTradeTime),
                !.avgPositionInMarket = FoldAverage(@, n, data.position),
                !.timesFirst = IF data.position = 1 THEN @ + 1 ELSE @,
                !.timesInTopN = IF data.position <= TOP_N_THRESHOLD THEN @ + 1 ELSE @]]

RECURSIVE UpdateAll(_, _, _, _)
UpdateAll(stats, tft, conditionId, firstTradeTime) ==
    IF tft = <<>> THEN stats
    ELSE UpdateAll(UpdateStats(stats, Head(tft), conditionId, firstTradeTime),
                   Tail(tft), conditionId, firstTradeTime)

\* The samples of one market added to the history: timeToMarket and
\* data.position of every trader of traderFirstTrade
NoSamples == [a \in Owners \ {NoOwner} |-> [count |-> 0, timeToMarket |-> 0, position |-> 0]]

AddSamples(folded, tft, firstTradeTime) ==
    [a \in DOMAIN folded |->
        IF \E i \in 1..Len(tft) : tft[i].trader = a
        THEN LET data == tft[CHOOSE i \in 1..Len(tft) : tft[i].trader = a]
             IN  [count        |-> folded[a].count + 1,
                  timeToMarket |-> folded[a].timeToMarket + (data.timestamp - firstTradeTime),
                  position     |-> folded[a].position + data.position]
        ELSE folded[a]]

----------------------------------------------------------------------------
(* The record normalizers: the .map of fetchMarketTrades and of fetchBatch *)

\* JavaScript values of a field of a JSON record
JsNumber(n) == [kind |-> "number", val |-> n]
JsNaN == [kind |-> "NaN", val |-> 0]
Undefined == [kind |-> "undefined", val |-> 0]
Null == [kind |-> "null", val |-> 0]
\* The string that spells the number n, and a string that spells none
NumericString(n) == [kind |-> "numeric string", val |-> n]
Text == [kind |-> "text", val |-> 0]

\* What the price, size and usdcSize of a record of the API can hold; a
\* missing field reads as undefined
RawValues == {JsNumber(1), JsNumber(2), NumericString(2), Text, Null, Undefined}

RawRecords == [price : RawValues, size : RawValues, usdcSize : RawValues]

\* ToNumber, applied by * to its operands
ToNumber(v) ==
    CASE v.kind = "number"         -> v
      [] v.kind = "numeric string" -> JsNumber(v.val)
      [] v.kind = "null"           -> JsNumber(0)
      [] OTHER                     -> JsNaN

\* JavaScript a * b
Times(a, b) ==
    LET x == ToNumber(a)
        y == ToNumber(b)
    IN  IF x.kind = "NaN" \/ y.kind = "NaN" THEN JsNaN ELSE JsNumber(x.val * y.val)

\* A field copied as it came: price: t.price
CopyField(v) == v

\* fetchMarketTrades: price: t.price, size: t.size, usdcSize: t.size * t.price
NormalizeMarketTrade(t) ==
    [price    |-> CopyField(t.price),
     size     |-> CopyField(t.size),
     usdcSize |-> Times(t.size, t.price)]

\* fetchBatch: price: item.price, usdcSize: item.usdcSize, size: item.size
NormalizeActivity(item) ==
    [price    |-> CopyField(item.price),
     usdcSize |-> CopyField(item.usdcSize),
     size     |-> CopyField(item.size)]

----------------------------------------------------------------------------
(* The find-first script: main groups the trades of one market by trader *)

\* Mutant: a later trade of the trader replaces the first trade
OrderTradeKeepLatest(order, trade) ==
    IF trade.owner = NoOwner THEN order
    ELSE LET i == FirstIndex({j \in 1..Len(order) : order[j].trader = trade.owner})
         IN  IF i = 0
             THEN Append(order, [trader      |-> trade.owner,
                                 firstTrade  |-> trade,
                                 totalVolume |-> trade.usdcSize,
                                 tradeCount  |-> 1])
             ELSE [order EXCEPT ![i].firstTrade = trade,
                                ![i].totalVolume = Plus(@, trade.usdcSize),
                                ![i].tradeCount = @ + 1]

\* The body of the loop over sortedTrades; the trade's owner is its
\* proxyWallet, lower-cased by fetchMarketTrades
OrderTrade(order, trade) ==
    IF trade.owner = NoOwner THEN order
    ELSE LET i == FirstIndex({j \in 1..Len(order) : order[j].trader = trade.owner})
         IN  IF i = 0
             THEN Append(order, [trader      |-> trade.owner,
                                 firstTrade  |-> trade,
                                 totalVolume |-> trade.usdcSize,
                                 tradeCount  |-> 1])
             ELSE [order EXCEPT ![i].totalVolume = Plus(@, trade.usdcSize),
                                ![i].tradeCount = @ + 1]

RECURSIVE OrderTrades(_, _)
OrderTrades(order, trades) ==
    IF trades = <<>> THEN order
    ELSE OrderTrades(OrderTrade(order, Head(trades)), Tail(trades))

TraderOrder(sortedTrades) == OrderTrades(<<>>, sortedTrades)

----------------------------------------------------------------------------
(* findProfitableTraders.ts: rankTraders *)

\* parseInt(process.env.LEADER_MIN_FIRST || '3')
MIN_FIRST_COUNT == 3

\* Mutant: the second way to qualify is forgotten
QualifiesByFirstOnly(t) == t.timesFirst >= MIN_FIRST_COUNT

\* The test of .filter
Qualifies(t) ==
    t.timesFirst >= MIN_FIRST_COUNT \/ t.timesInTopN >= MIN_FIRST_COUNT * 2

\* The comparator of .sort as the engine reads it: a NaN result (a NaN
\* totalVolume on either side) counts as 0
RankCompare(a, b) ==
    IF b.timesFirst # a.timesFirst THEN b.timesFirst - a.timesFirst
    ELSE IF b.timesInTopN # a.timesInTopN THEN b.timesInTopN - a.timesInTopN
    ELSE IF a.totalVolume = NaN \/ b.totalVolume = NaN THEN 0
    ELSE b.totalVolume - a.totalVolume

\* Array.prototype.sort of the engine (V8) on fewer than 64 elements: the
\* leading run is found, reversed when strictly descending, and the rest is
\* inserted by binary search.
IsDescending(order) == order < 0

\* The last index of the run that starts at 1 and holds idx
RECURSIVE RunEnd(_, _, _)
RunEnd(a, idx, descending) ==
    IF idx = Len(a) THEN idx
    ELSE LET order == RankCompare(a[idx + 1], a[idx])
         IN  IF IsDescending(order) = descending
             THEN RunEnd(a, idx + 1, descending)
             ELSE idx

Reverse(a) == [i \in 1..Len(a) |-> a[Len(a) + 1 - i]]

\* The place binary search finds for pivot in a[left .. right - 1]
RECURSIVE InsertionPoint(_, _, _, _)
InsertionPoint(a, pivot, left, right) ==
    IF left >= right THEN left
    ELSE LET mid == left + (right - left) \div 2
         IN  IF RankCompare(pivot, a[mid]) < 0
             THEN InsertionPoint(a, pivot, left, mid)
             ELSE InsertionPoint(a, pivot, mid + 1, right)

\* a[1 .. start - 1] is in order; a[start ..] is inserted element by element
RECURSIVE BinaryInsertionSort(_, _)
BinaryInsertionSort(a, start) ==
    IF start > Len(a) THEN a
    ELSE LET left == InsertionPoint(a, a[start], 1, start)
         IN  BinaryInsertionSort(
                 SubSeq(a, 1, left - 1) \o <<a[start]>>
                     \o SubSeq(a, left, start - 1) \o SubSeq(a, start + 1, Len(a)),
                 start + 1)

SortRanked(a) ==
    IF Len(a) < 2 THEN a
    ELSE LET descending == IsDescending(RankCompare(a[2], a[1]))
             run        == RunEnd(a, 2, descending)
             made       == IF descending
                           THEN Reverse(SubSeq(a, 1, run)) \o SubSeq(a, run + 1, Len(a))
                           ELSE a
         IN  BinaryInsertionSort(made, run + 1)

rankTraders(stats) == SortRanked(SelectSeq(stats, Qualifies))

----------------------------------------------------------------------------
(* compareTraders.ts: fetchBatch and fetchTraderActivity *)

\* A page holds up to a hundred trades: a list of trades is kept as a list of
\* runs, count copies of one trade each.
Run(trade, count) == [trade |-> trade, count |-> count]

RunsLen(runs) == SumSeq([k \in 1..Len(runs) |-> runs[k].count])

batchSize == 100
maxParallel == 3

\* Math.floor((Date.now() - HISTORY_DAYS * 24 * 60 * 60 * 1000) / 1000)
sinceTimestamp == 100

\* Values of COMPARE_MAX_TRADES: below, at and above the size of a page, and
\* the default
Limits == {50, 100, 250, 1000}

TradeAt(conditionId, timestamp) ==
    [conditionId |-> conditionId, timestamp |-> timestamp]

\* What response.data of one request can be: a full page in order, a full
\* page with the later trades first, a full page with trades older than
\* sinceTimestamp, a short page, an empty page
Pages ==
    {<<Run(TradeAt("M2", 160), batchSize)>>,
     <<Run(TradeAt("M2", 160), 60), Run(TradeAt("M1", 100), 40)>>,
     <<Run(TradeAt("M2", 160), 90), Run(TradeAt("M1", 40), 10)>>,
     <<Run(TradeAt("M1", 100), 40)>>,
     <<>>}

\* The outcomes of axios.get: it throws, or answers with a page
Responses ==
    {[failed |-> TRUE, data |-> <<>>]} \cup {[failed |-> FALSE, data |-> p] : p \in Pages}

\* trades.filter((t) => t.timestamp >= sinceTimestamp)
FilterSince(runs) == SelectSeq(runs, LAMBDA r : r.trade.timestamp >= sinceTimestamp)

\* Mutant: no try/catch around the request
fetchBatchUncaught(resp) ==
    [threw  |-> resp.failed,
     trades |-> IF resp.failed THEN <<>> ELSE FilterSince(resp.data)]

\* fetchBatch: the trades of the page not older than sinceTimestamp, the
\* empty list when the request failed; it never throws
fetchBatch(resp) ==
    [threw  |-> FALSE,
     trades |-> IF resp.failed THEN <<>> ELSE FilterSince(resp.data)]

\* Mutant: a short batch does not end the loop
RECURSIVE AddBatchesNoStop(_, _, _)
AddBatchesNoStop(all, addedCount, batches) ==
    IF batches = <<>> THEN [allTrades |-> all, addedCount |-> addedCount, hasMore |-> TRUE]
    ELSE AddBatchesNoStop(all \o Head(batches), addedCount + RunsLen(Head(batches)),
                          Tail(batches))

\* The loop over the results of one round, from `batches` on
RECURSIVE AddBatches(_, _, _)
AddBatches(all, addedCount, batches) ==
    IF batches = <<>> THEN [allTrades |-> all, addedCount |-> addedCount, hasMore |-> TRUE]
    ELSE LET batch == Head(batches)
             all2  == IF RunsLen(batch) > 0 THEN all \o batch ELSE all
             added == addedCount + RunsLen(batch)
         IN  IF RunsLen(batch) < batchSize
             THEN [allTrades |-> all2, addedCount |-> added, hasMore |-> FALSE]
             ELSE AddBatches(all2, added, Tail(batches))

\* allTrades.slice(0, n)
RECURSIVE Slice(_, _)
Slice(runs, n) ==
    IF runs = <<>> \/ n <= 0 THEN <<>>
    ELSE IF Head(runs).count >= n THEN <<Run(Head(runs).trade, n)>>
    ELSE <<Head(runs)>> \o Slice(Tail(runs), n - Head(runs).count)

\* The limit applied at the end of a round
ApplyLimit(runs, n) == IF RunsLen(runs) >= n THEN Slice(runs, n) ELSE runs

\* allTrades.sort((a, b) => a.timestamp - b.timestamp), stable, on runs
InsertRunByTimestamp(sorted, x) ==
    LET k == Cardinality({i \in 1..Len(sorted) :
                             sorted[i].trade.timestamp <= x.trade.timestamp})
    IN  SubSeq(sorted, 1, k) \o <<x>> \o SubSeq(sorted, k + 1, Len(sorted))

RECURSIVE SortRunsFrom(_, _)
SortRunsFrom(sorted, rest) ==
    IF rest = <<>> THEN sorted
    ELSE SortRunsFrom(InsertRunByTimestamp(sorted, Head(rest)), Tail(rest))

\* Mutant: the list is returned as collected
ReturnAsCollected(runs) == runs

SortAllTrades(runs) == SortRunsFrom(<<>>, runs)

----------------------------------------------------------------------------
(* Inputs *)

Trades == [conditionId : Conditions, timestamp : Timestamps]

\* What fetchTraderActivity returns: up to MaxTrades trades, ascending by
\* timestamp
TradeLists ==
    {s \in UNION {[1..n -> Trades] : n \in 0..MaxTrades} : IsSortedByTimestamp(s)}

TotalTrades(td) == SumSeq([k \in 1..Len(td) |-> Len(td[k].trades)])

\* What fetchMarketTrades returns for one market, in arrival order
MarketTrade == [timestamp : MarketTimestamps, owner : Owners, usdcSize : UsdcSizes]

MarketTradeInputs ==
    UNION {[1..n -> MarketTrade] : n \in 0..MaxMarketTrades}

\* What fetchMarketTrades returns to the find-first script when main goes on:
\* at least one trade
FirstTradeInputs ==
    UNION {[1..n -> MarketTrade] : n \in 1..MaxFirstTrades}

\* Statistics analyzeMarkets leaves for a trader after n markets, first in f
\* of them and second, 60 seconds late, in the others, with total volume v
StatsAfter(address, f, n, v) ==
    [address             |-> address,
     timesFirst          |-> f,
     timesInTopN         |-> n,
     totalVolume         |-> v,
     avgPositionInMarket |-> Quotient(f + 2 * (n - f), n),
     marketsTraded       |-> {MarketId(k) : k \in 1..n},
     avgTimeToMarket     |-> Quotient(60 * (n - f), n),
     tradeCount          |-> n]

RankedStats ==
    {StatsAfter(a, f, n, v) :
        a \in Addresses, f \in {2, 3, 4}, n \in {5, 6}, v \in {6, 7, NaN}}

\* The values of a Map of up to MaxRanked traders, in insertion order
ShortRankInputs ==
    {s \in UNION {[1..n -> RankedStats] : n \in 0..MaxRanked} :
        \A i, j \in 1..Len(s) : s[i].address = s[j].address => i = j}

\* Longer Maps: traders with the same timesFirst and timesInTopN
ManyAddresses ==
    <<"0xaaa", "0xbbb", "0xccc", "0xddd", "0xeee", "0xfff", "0x111", "0x222">>

TiedRankInputs ==
    UNION {{[k \in 1..n |-> StatsAfter(ManyAddresses[k], 3, 5, v[k])] :
                v \in [1..n -> {6, 7, NaN}]} :
           n \in MaxRanked + 1..MaxRankedTied}

RankInputs == ShortRankInputs \cup TiedRankInputs

----------------------------------------------------------------------------
(* The programs *)

Init ==
    /\ script \in {"compare", "leaders", "rank", "first", "normalize", "activity"}
    /\ pc = CASE script = "compare" -> "fetching"
              [] script = "leaders" -> "analyzing"
              [] script = "rank"    -> "analyzed"
              [] script = "first"   -> "grouping"
              [] script = "normalize" -> "requested"
              [] script = "activity" -> "requesting"
    /\ traderData = <<>>
    /\ matched = <<>>
    /\ summaries = <<>>
    /\ marketTrades = <<>>
    /\ traderFirstTrade = <<>>
    /\ traderStats \in IF script = "rank" THEN RankInputs ELSE {<<>>}
    /\ processedMarkets = 0
    /\ ranked = <<>>
    /\ traderOrder = <<>>
    /\ response \in IF script = "normalize" THEN RawRecords ELSE {<<>>}
    /\ normalizer = ""
    /\ normalizedTrade = <<>>
    /\ foldedSamples = NoSamples
    /\ MAX_TRADES_LIMIT \in IF script = "activity" THEN Limits ELSE {1000}
    /\ allTrades = <<>>
    /\ offset = 0
    /\ hasMore = FALSE
    /\ threw = FALSE
    /\ received = <<>>
    /\ failedRequests = 0

\* compareTraders main: one pass of the loop over the addresses,
\*   traderData.push({ address, trades: await fetchTraderActivity(address) })
FetchTrader ==
    /\ script = "compare"
    /\ pc = "fetching"
    /\ Len(traderData) < MaxTraders
    /\ \E address \in Addresses, trades \in TradeLists :
          /\ TotalTrades(traderData) + Len(trades) <= MaxTotalTrades
          /\ traderData' = Append(traderData, [address |-> address, trades |-> trades])
    /\ UNCHANGED <<script, activityVars, fetchVars, pc, matched, summaries, leaderVars>>

\* compareTraders main: const matched = findMatchingTrades(traderData)
FindMatchingTrades ==
    /\ script = "compare"
    /\ pc = "fetching"
    /\ Len(traderData) >= 2
    /\ matched' = findMatchingTrades(traderData)
    /\ pc' = "matched"
    /\ UNCHANGED <<script, activityVars, fetchVars, traderData, summaries, leaderVars>>

\* compareTraders main: const summaries = calculateSummaries(matched, traderData)
CalculateSummaries ==
    /\ script = "compare"
    /\ pc = "matched"
    /\ summaries' = calculateSummaries(matched, traderData)
    /\ pc' = "summarized"
    /\ UNCHANGED <<script, activityVars, fetchVars, traderData, matched, leaderVars>>

\* analyzeMarkets: the loop takes the next market of the list, counts it and
\* asks for its trades; the function waits at `await fetchMarketTrades(...)`
TakeMarket ==
    /\ script = "leaders"
    /\ pc = "analyzing"
    /\ processedMarkets < MaxMarkets
    /\ processedMarkets' = processedMarkets + 1
    /\ pc' = "awaiting trades"
    /\ UNCHANGED <<script, activityVars, fetchVars, compareVars, marketTrades,
                   traderFirstTrade, traderStats, ranked, traderOrder, foldedSamples>>

\* analyzeMarkets: the rest of the pass, from the answer of fetchMarketTrades
\* to the end of the loop body. The trades are what fetchMarketTrades returns
\* for the market; an empty answer skips the market. Timestamps are positive,
\* so `sortedTrades[0]?.timestamp || 0` is the first timestamp.
AnalyzeMarket ==
    /\ script = "leaders"
    /\ pc = "awaiting trades"
    /\ \E trades \in MarketTradeInputs :
          LET sortedTrades   == SortByTimestamp(trades)
              firstTradeTime == sortedTrades[1].timestamp
              tft            == TraderFirstTrade(sortedTrades)
          IN  /\ Len(trades) <= IF processedMarkets = MaxMarkets
                                   THEN MaxLastMarketTrades ELSE MaxMarketTrades
              /\ marketTrades' = sortedTrades
              /\ IF Len(trades) = 0
                 THEN /\ traderFirstTrade' = <<>>
                      /\ UNCHANGED <<traderStats, foldedSamples>>
                 ELSE /\ traderFirstTrade' = tft
                      /\ traderStats' =
                            UpdateAll(traderStats, tft,
                                      MarketId(processedMarkets), firstTradeTime)
                      /\ foldedSamples' = AddSamples(foldedSamples, tft, firstTradeTime)
    /\ pc' = "analyzing"
    /\ UNCHANGED <<script, activityVars, fetchVars, compareVars, processedMarkets,
                   ranked, traderOrder>>

\* analyzeMarkets: the list of markets is exhausted, return traderStats
ReturnStats ==
    /\ script = "leaders"
    /\ pc = "analyzing"
    /\ pc' = "analyzed"
    /\ UNCHANGED <<script, activityVars, fetchVars, compareVars, leaderVars>>

\* main: const ranked = rankTraders(traderStats)
RankTraders ==
    /\ script \in {"leaders", "rank"}
    /\ pc = "analyzed"
    /\ ranked' = rankTraders(traderStats)
    /\ pc' = "ranked"
    /\ UNCHANGED <<script, activityVars, fetchVars, compareVars, marketTrades, traderFirstTrade,
                   traderStats, processedMarkets, traderOrder, foldedSamples>>

\* find-first main: the trades of the market are fetched, sorted by
\* timestamp and grouped by trader in order of first appearance
GroupFirstTraders ==
    /\ script = "first"
    /\ pc = "grouping"
    /\ \E trades \in FirstTradeInputs :
          /\ marketTrades' = SortByTimestamp(trades)
          /\ traderOrder' = TraderOrder(SortByTimestamp(trades))
    /\ pc' = "grouped"
    /\ UNCHANGED <<script, activityVars, fetchVars, compareVars, traderFirstTrade, traderStats,
                   processedMarkets, ranked, foldedSamples>>

\* fetchMarketTrades (both scripts that fetch a market): one record of the
\* answer is mapped to a Trade
FetchMarketTrades ==
    /\ script = "normalize"
    /\ pc = "requested"
    /\ normalizer' = "fetchMarketTrades"
    /\ normalizedTrade' = NormalizeMarketTrade(response)
    /\ pc' = "normalized"
    /\ UNCHANGED <<script, activityVars, response, compareVars, leaderVars>>

\* fetchBatch: one record of the answer is mapped to a Trade
FetchBatch ==
    /\ script = "normalize"
    /\ pc = "requested"
    /\ normalizer' = "fetchBatch"
    /\ normalizedTrade' = NormalizeActivity(response)
    /\ pc' = "normalized"
    /\ UNCHANGED <<script, activityVars, response, compareVars, leaderVars>>

\* fetchTraderActivity: the first batch, at offset 0
FetchFirstBatch ==
    /\ script = "activity"
    /\ pc = "requesting"
    /\ \E resp \in Responses :
          LET firstBatch == fetchBatch(resp)
          IN  /\ failedRequests' = IF resp.failed THEN 1 ELSE 0
              /\ IF firstBatch.threw
                 THEN /\ threw' = TRUE
                      /\ pc' = "failed"
                      /\ UNCHANGED <<allTrades, received, offset, hasMore>>
                 ELSE /\ allTrades' = firstBatch.trades
                      /\ received' = firstBatch.trades
                      /\ IF RunsLen(firstBatch.trades) = 100
                         THEN /\ offset' = 100
                              /\ hasMore' = TRUE
                              /\ pc' = "paging"
                         ELSE /\ pc' = "returning"
                              /\ UNCHANGED <<offset, hasMore>>
                      /\ UNCHANGED threw
    /\ UNCHANGED <<script, MAX_TRADES_LIMIT, compareVars, fetchVars, leaderVars>>

\* fetchTraderActivity: one pass of the while loop, maxParallel requests
FetchRound ==
    /\ script = "activity"
    /\ pc = "paging"
    /\ hasMore /\ RunsLen(allTrades) < MAX_TRADES_LIMIT
    /\ \E resps \in [1..maxParallel -> Responses] :
          LET results == [i \in 1..maxParallel |-> fetchBatch(resps[i])]
              r       == AddBatches(allTrades, 0,
                                    [i \in 1..maxParallel |-> results[i].trades])
          IN  /\ failedRequests' = failedRequests
                     + Cardinality({i \in 1..maxParallel : resps[i].failed})
              /\ IF \E i \in 1..maxParallel : results[i].threw
                 THEN /\ threw' = TRUE
                      /\ pc' = "failed"
                      /\ UNCHANGED <<allTrades, received, offset, hasMore>>
                 ELSE /\ allTrades' = ApplyLimit(r.allTrades, MAX_TRADES_LIMIT)
                      /\ received' = r.allTrades
                      /\ hasMore' = (/\ r.hasMore
                                     /\ r.addedCount # 0
                                     /\ RunsLen(r.allTrades) < MAX_TRADES_LIMIT)
                      /\ offset' = offset + maxParallel * batchSize
                      /\ UNCHANGED <<pc, threw>>
    /\ UNCHANGED <<script, MAX_TRADES_LIMIT, compareVars, fetchVars, leaderVars>>

\* fetchTraderActivity: the loop is over or was never entered; the list is
\* sorted and returned
ReturnActivity ==
    /\ script = "activity"
    /\ \/ pc = "returning"
       \/ pc = "paging" /\ ~(hasMore /\ RunsLen(allTrades) < MAX_TRADES_LIMIT)
    /\ allTrades' = SortAllTrades(allTrades)
    /\ pc' = "returned"
    /\ UNCHANGED <<script, MAX_TRADES_LIMIT, received, offset, hasMore, threw,
                   failedRequests, compareVars, fetchVars, leaderVars>>

Next ==
    \/ FetchTrader
    \/ FindMatchingTrades
    \/ CalculateSummaries
    \/ TakeMarket
    \/ AnalyzeMarket
    \/ ReturnStats
    \/ RankTraders
    \/ GroupFirstTraders
    \/ FetchMarketTrades
    \/ FetchBatch
    \/ FetchFirstBatch
    \/ FetchRound
    \/ ReturnActivity

Spec == Init /\ [][Next]_vars

----------------------------------------------------------------------------
(* What the claims speak of, read off the inputs *)

\* findMatchingTrades has returned
Matched == script = "compare" /\ pc \in {"matched", "summarized"}

\* calculateSummaries has returned
Summarized == script = "compare" /\ pc = "summarized"

\* The entries of traderData that hold a trade of address a in market c
EntriesOf(a, c) ==
    {k \in 1..Len(traderData) :
        /\ traderData[k].address = a
        /\ \E i \in 1..Len(traderData[k].trades) :
              traderData[k].trades[i].conditionId = c}

\* The timestamps of all trades of address a in market c
TimestampsOf(a, c) ==
    UNION {{traderData[k].trades[i].timestamp :
                i \in {j \in 1..Len(traderData[k].trades) :
                          traderData[k].trades[j].conditionId = c}} :
           k \in EntriesOf(a, c)}

Participants(c) == {a \in Addresses : EntriesOf(a, c) # {}}

FirstTouch(a, c) == SetMin(TimestampsOf(a, c))

Gap(a, b, c) == Abs(FirstTouch(a, c) - FirstTouch(b, c))

Listed(m) == {m.traderTrades[i].address : i \in 1..Len(m.traderTrades)}

MatchedConditions == {matched[k].conditionId : k \in 1..Len(matched)}

\* The gap records of the output, as (market index, record index) pairs
GapRecords ==
    UNION {{<<k, i>> : i \in 1..Len(matched[k].timeDiffs)} : k \in 1..Len(matched)}

Rec(p) == matched[p[1]].timeDiffs[p[2]]

RecCondition(p) == matched[p[1]].conditionId

RECURSIVE SumAbsDiff(_)
SumAbsDiff(P) ==
    IF P = {} THEN 0
    ELSE LET p == CHOOSE q \in P : TRUE
         IN  Abs(Rec(p).diffSeconds) + SumAbsDiff(P \ {p})

\* The timestamps of the trades of owner a among the market's trades
MarketTimestampsOf(a) ==
    {marketTrades[i].timestamp :
        i \in {j \in 1..Len(marketTrades) : marketTrades[j].owner = a}}

----------------------------------------------------------------------------
(* Claims *)

\* C1: the first-touch timestamp recorded for a (trader, market) by
\* findMatchingTrades, and by the per-market grouping of analyzeMarkets, is
\* the minimum timestamp among that trader's trades in that market.
C1_FirstTouchIsMinimum ==
    /\ Matched =>
          \A k \in 1..Len(matched) : \A i \in 1..Len(matched[k].traderTrades) :
              LET e == matched[k].traderTrades[i]
              IN  /\ TimestampsOf(e.address, matched[k].conditionId) # {}
                  /\ e.timestamp = FirstTouch(e.address, matched[k].conditionId)
    /\ script = "leaders" =>
          \A i \in 1..Len(traderFirstTrade) :
              LET e == traderFirstTrade[i]
              IN  /\ MarketTimestampsOf(e.trader) # {}
                  /\ e.timestamp = SetMin(MarketTimestampsOf(e.trader))

\* An address given twice whose later entry holds the earlier trade of a
\* matched market: the trades grouped for it arrive out of order.
C1_Witness ==
    /\ Matched
    /\ \E k \in 1..Len(matched) : \E a \in Listed(matched[k]) :
          \E e1, e2 \in EntriesOf(a, matched[k].conditionId) :
              /\ e1 < e2
              /\ \E i \in 1..Len(traderData[e1].trades),
                    j \in 1..Len(traderData[e2].trades) :
                    /\ traderData[e1].trades[i].conditionId = matched[k].conditionId
                    /\ traderData[e2].trades[j].conditionId = matched[k].conditionId
                    /\ traderData[e2].trades[j].timestamp
                          < traderData[e1].trades[i].timestamp

\* C2: in a gap record whose two first touches differ, diffSeconds is
\* trader2's first timestamp minus trader1's, and leader is the trader with
\* the strictly smaller first timestamp.
C2_DiffAndLeader ==
    Matched =>
        \A p \in GapRecords :
            LET d  == Rec(p)
                f1 == FirstTouch(d.trader1, RecCondition(p))
                f2 == FirstTouch(d.trader2, RecCondition(p))
            IN  f1 # f2 =>
                    /\ d.diffSeconds = f2 - f1
                    /\ d.leader = IF f1 < f2 THEN d.trader1 ELSE d.trader2

\* 0xaaa at t=100 and 0xbbb at t=160: leader 0xaaa, 60 seconds; and a record
\* led by its trader2.
C2_Witness ==
    /\ Matched
    /\ \E p \in GapRecords :
          /\ Rec(p) = [trader1 |-> "0xaaa", trader2 |-> "0xbbb",
                       diffSeconds |-> 60, leader |-> "0xaaa"]
          /\ FirstTouch("0xaaa", RecCondition(p)) = 100
          /\ FirstTouch("0xbbb", RecCondition(p)) = 160
    /\ \E p \in GapRecords : Rec(p).diffSeconds < 0 /\ Rec(p).leader = Rec(p).trader2

\* C3 as claimed: on equal first touches the leader is the lexicographically
\* smaller address.
C3_TieByAddressOrder ==
    Matched =>
        \A p \in GapRecords :
            LET d == Rec(p)
            IN  FirstTouch(d.trader1, RecCondition(p)) = FirstTouch(d.trader2, RecCondition(p))
                    => /\ d.leader \in {d.trader1, d.trader2}
                       /\ AddrRank(d.leader) <= AddrRank(d.trader1)
                       /\ AddrRank(d.leader) <= AddrRank(d.trader2)

\* C3 (amended): on equal first touches the leader is trader2 of the record,
\* the trader whose trades of that market are met later in the input,
\* whatever the order of the two addresses.
C3_TieByInputPosition ==
    Matched =>
        \A p \in GapRecords :
            LET d == Rec(p)
                c == RecCondition(p)
            IN  FirstTouch(d.trader1, c) = FirstTouch(d.trader2, c)
                    => /\ d.leader = d.trader2
                       /\ d.diffSeconds = 0
                       /\ SetMin(EntriesOf(d.trader1, c)) < SetMin(EntriesOf(d.trader2, c))

\* Two ties in one output, one led by the larger address and one by the smaller
C3_Witness ==
    /\ Matched
    /\ \E p, q \in GapRecords :
          /\ Rec(p).diffSeconds = 0
          /\ Rec(q).diffSeconds = 0
          /\ AddrRank(Rec(p).leader) > AddrRank(Rec(p).trader1)
          /\ AddrRank(Rec(q).leader) < AddrRank(Rec(q).trader1)

\* C4: in a matched market every unordered pair of distinct traders has at
\* most one gap record, trader1 differs from trader2, and the leader is one
\* of the two.
C4_Antisymmetric ==
    Matched =>
        /\ \A p \in GapRecords :
              /\ Rec(p).trader1 # Rec(p).trader2
              /\ Rec(p).leader \in {Rec(p).trader1, Rec(p).trader2}
        /\ \A p, q \in GapRecords :
              (/\ p # q
               /\ p[1] = q[1]) =>
                  {Rec(p).trader1, Rec(p).trader2} # {Rec(q).trader1, Rec(q).trader2}

\* Three traders of one market, every two of them paired
C4_Witness ==
    /\ Matched
    /\ \E k \in 1..Len(matched) :
          /\ Len(matched[k].timeDiffs) = 3
          /\ Cardinality(Listed(matched[k])) = 3

\* C5: a pair of participants of a market has a gap record if and only if
\* the absolute difference of their first touches is at most
\* TIME_WINDOW_HOURS * 3600; a gap equal to the window is kept.
C5_WindowFilter ==
    Matched =>
        \A c \in Conditions : \A a, b \in Participants(c) :
            a # b =>
                ((\E p \in GapRecords :
                      /\ RecCondition(p) = c
                      /\ {Rec(p).trader1, Rec(p).trader2} = {a, b})
                 <=> Gap(a, b, c) <= TIME_WINDOW_HOURS * 3600)

\* One market with a pair exactly the window apart (kept) and a pair farther
\* apart (dropped)
C5_Witness ==
    /\ Matched
    /\ \E p \in GapRecords :
          /\ Abs(Rec(p).diffSeconds) = TIME_WINDOW_HOURS * 3600
          /\ \E a, b \in Participants(RecCondition(p)) :
                Gap(a, b, RecCondition(p)) > TIME_WINDOW_HOURS * 3600

\* C6: every matched market lists at least 2 distinct addresses, and a market
\* traded by fewer than 2 distinct traders is not in the output.
C6_TwoDistinctTraders ==
    Matched =>
        /\ \A k \in 1..Len(matched) :
              /\ Cardinality(Listed(matched[k])) >= 2
              /\ Cardinality(Listed(matched[k])) = Len(matched[k].traderTrades)
        /\ \A c \in Conditions :
              Cardinality(Participants(c)) < 2 => c \notin MatchedConditions

\* The same address given twice, both entries trading a market nobody else
\* trades, next to a market that is matched
C6_Witness ==
    /\ Matched
    /\ Len(matched) > 0
    /\ \E c \in Conditions : \E a \in Addresses :
          /\ Participants(c) = {a}
          /\ Cardinality(EntriesOf(a, c)) = 2
          /\ c \notin MatchedConditions

\* C7: a market is in the output if and only if one of its participant pairs
\* is within the window; every returned market has a non-empty timeDiffs.
C7_MatchedIffPairSurvives ==
    Matched =>
        /\ \A k \in 1..Len(matched) : Len(matched[k].timeDiffs) > 0
        /\ \A c \in Conditions :
              c \in MatchedConditions <=>
                  \E a, b \in Participants(c) :
                      a # b /\ Gap(a, b, c) <= TIME_WINDOW_HOURS * 3600

\* A market of exactly two traders, farther apart than the window, is absent
C7_Witness ==
    /\ Matched
    /\ \E c \in Conditions :
          /\ Cardinality(Participants(c)) = 2
          /\ \A a, b \in Participants(c) :
                a # b => Gap(a, b, c) > TIME_WINDOW_HOURS * 3600
          /\ c \notin MatchedConditions

\* C8 as claimed: every participant listed in a matched market is within the
\* window of some other listed participant.
C8_ListedWithinWindow ==
    Matched =>
        \A k \in 1..Len(matched) : \A i \in 1..Len(matched[k].traderTrades) :
            \E j \in 1..Len(matched[k].traderTrades) :
                /\ j # i
                /\ Abs(matched[k].traderTrades[i].timestamp
                          - matched[k].traderTrades[j].timestamp)
                      <= TIME_WINDOW_HOURS * 3600

\* C8 (amended): a matched market lists every trader that traded it, each
\* once, and at least two of the listed traders are within the window of each
\* other; the two traders of every gap record are within the window.
C8_ListsAllParticipants ==
    Matched =>
        /\ \A k \in 1..Len(matched) :
              /\ Listed(matched[k]) = Participants(matched[k].conditionId)
              /\ Len(matched[k].traderTrades) = Cardinality(Listed(matched[k]))
              /\ \E a, b \in Listed(matched[k]) :
                    /\ a # b
                    /\ Gap(a, b, matched[k].conditionId) <= TIME_WINDOW_HOURS * 3600
        /\ \A p \in GapRecords :
              Gap(Rec(p).trader1, Rec(p).trader2, RecCondition(p))
                  <= TIME_WINDOW_HOURS * 3600

\* A listed participant farther than the window from every other one
C8_Witness ==
    /\ Matched
    /\ \E k \in 1..Len(matched) : \E a \in Listed(matched[k]) :
          \A b \in Listed(matched[k]) \ {a} :
              Gap(a, b, matched[k].conditionId) > TIME_WINDOW_HOURS * 3600

\* The earliest first touch among the participants of market c
EarliestTouch(c) == SetMin({FirstTouch(a, c) : a \in Participants(c)})

\* C9: the returned list is ordered by each market's earliest participant
\* first touch, most recent first.
C9_MostRecentFirst ==
    Matched =>
        \A k \in 1..Len(matched) - 1 :
            EarliestTouch(matched[k].conditionId)
                >= EarliestTouch(matched[k + 1].conditionId)

\* Two matched markets, the more recent one met later in the input
C9_Witness ==
    /\ Matched
    /\ Len(matched) = 2
    /\ EarliestTouch(matched[1].conditionId) > EarliestTouch(matched[2].conditionId)
    /\ Len(traderData[1].trades) > 0
    /\ traderData[1].trades[1].conditionId = matched[2].conditionId

\* The gap records touching address a in the matched markets that list a
TouchingRecords(a) ==
    {p \in GapRecords :
        /\ a \in Listed(matched[p[1]])
        /\ a \in {Rec(p).trader1, Rec(p).trader2}}

LeadRecords(a) == {p \in TouchingRecords(a) : Rec(p).leader = a}

FollowRecords(a) == {p \in TouchingRecords(a) : Rec(p).leader # a}

\* The fraction f is the mean of abs(diffSeconds) over the records P
IsMeanOf(f, P) == f.den > 0 /\ f.num * Cardinality(P) = f.den * SumAbsDiff(P)

\* C10: timesFirst is the number of gap records that touch the trader and
\* name it leader, avgLeadTimeSeconds the mean of abs(diffSeconds) over
\* them, avgFollowTimeSeconds the mean over the records that touch the trader
\* and name the other trader.
C10_SummaryCounts ==
    Summarized =>
        /\ Len(summaries) = Len(traderData)
        /\ \A i \in 1..Len(summaries) :
              LET s == summaries[i]
              IN  /\ s.timesFirst = Cardinality(LeadRecords(s.trader))
                  /\ LeadRecords(s.trader) # {} =>
                        IsMeanOf(s.avgLeadTimeSeconds, LeadRecords(s.trader))
                  /\ FollowRecords(s.trader) # {} =>
                        IsMeanOf(s.avgFollowTimeSeconds, FollowRecords(s.trader))

\* A trader leading in two markets by 60 and 86400 seconds (mean 43230) next
\* to its follower
C10_Witness ==
    /\ Summarized
    /\ \E i, j \in 1..Len(summaries) :
          /\ summaries[i].timesFirst = 2
          /\ summaries[i].avgLeadTimeSeconds = [num |-> 43230, den |-> 1]
          /\ summaries[j].timesFirst = 0
          /\ summaries[j].avgFollowTimeSeconds = [num |-> 43230, den |-> 1]

\* C11: after folding n >= 1 samples the running average is their
\* arithmetic mean (average times n is the sum of the samples), for
\* avgTimeToMarket and avgPositionInMarket of analyzeMarkets and for
\* avgLeadTimeSeconds and avgFollowTimeSeconds of calculateSummaries.
C11_RunningAverageIsMean ==
    /\ script = "leaders" =>
          \A i \in 1..Len(traderStats) :
              LET s == traderStats[i]
                  h == foldedSamples[s.address]
              IN  /\ s.tradeCount >= 1
                  /\ h.count = s.tradeCount
                  /\ s.avgTimeToMarket.den > 0
                  /\ s.avgTimeToMarket.num * h.count
                        = s.avgTimeToMarket.den * h.timeToMarket
                  /\ s.avgPositionInMarket.den > 0
                  /\ s.avgPositionInMarket.num * h.count
                        = s.avgPositionInMarket.den * h.position
    /\ Summarized =>
          \A i \in 1..Len(summaries) :
              LET s == summaries[i]
              IN  /\ LeadRecords(s.trader) # {} =>
                        s.avgLeadTimeSeconds
                            = Quotient(SumAbsDiff(LeadRecords(s.trader)),
                                       Cardinality(LeadRecords(s.trader)))
                  /\ FollowRecords(s.trader) # {} =>
                        s.avgFollowTimeSeconds
                            = Quotient(SumAbsDiff(FollowRecords(s.trader)),
                                       Cardinality(FollowRecords(s.trader)))

\* Three markets folded for one trader, in positions 1, 2 and 2 (mean 5/3),
\* 0, 60 and 60 seconds after the first trade (mean 40)
C11_Witness ==
    /\ script = "leaders"
    /\ \E i \in 1..Len(traderStats) :
          /\ traderStats[i].tradeCount = 3
          /\ traderStats[i].avgPositionInMarket = [num |-> 5, den |-> 3]
          /\ traderStats[i].avgTimeToMarket = [num |-> 40, den |-> 1]

\* C12: a trader with no gap record as leader has avgLeadTimeSeconds 0, one
\* with no gap record as follower has avgFollowTimeSeconds 0, and neither
\* average is ever a quotient by zero.
C12_ZeroCountAverageIsZero ==
    Summarized =>
        \A i \in 1..Len(summaries) :
            LET s == summaries[i]
            IN  /\ s.avgLeadTimeSeconds.den > 0
                /\ s.avgFollowTimeSeconds.den > 0
                /\ LeadRecords(s.trader) = {} => s.avgLeadTimeSeconds = Zero
                /\ FollowRecords(s.trader) = {} => s.avgFollowTimeSeconds = Zero

\* A matched market whose leader never follows and whose follower never leads
C12_Witness ==
    /\ Summarized
    /\ \E i, j \in 1..Len(summaries) :
          /\ LeadRecords(summaries[i].trader) # {}
          /\ FollowRecords(summaries[i].trader) = {}
          /\ summaries[i].avgFollowTimeSeconds = Zero
          /\ FollowRecords(summaries[j].trader) # {}
          /\ LeadRecords(summaries[j].trader) = {}
          /\ summaries[j].avgLeadTimeSeconds = Zero

\* The matched markets that list address a
MarketsListing(a) == {k \in 1..Len(matched) : a \in Listed(matched[k])}

\* C13: matchedTrades is the number of matched markets that list the trader,
\* each counted once however many gap records touch the trader; a trader
\* listed in no matched market has matchedTrades 0, timesFirst 0 and both
\* averages 0.
C13_MatchedMarketsCountedOnce ==
    Summarized =>
        \A i \in 1..Len(summaries) :
            LET s == summaries[i]
            IN  /\ s.matchedTrades = Cardinality(MarketsListing(s.trader))
                /\ MarketsListing(s.trader) = {} =>
                      /\ s.matchedTrades = 0
                      /\ s.timesFirst = 0
                      /\ s.avgLeadTimeSeconds = Zero
                      /\ s.avgFollowTimeSeconds = Zero

\* A trader touched by two gap records of its only matched market, leading
\* one of them
C13_Witness ==
    /\ Summarized
    /\ \E i \in 1..Len(summaries) :
          /\ summaries[i].matchedTrades = 1
          /\ summaries[i].timesFirst = 1
          /\ Cardinality(TouchingRecords(summaries[i].trader)) = 2

\* The entries of traderData for address a
TraderEntries(a) == {k \in 1..Len(traderData) : traderData[k].address = a}

\* C14: calculateSummaries leaves the matched markets and every trader's
\* trade list as they were before the call, and totalTrades of each summary is
\* the length of that trader's trade list: for every address and length, as
\* many summaries as entries of traderData.
C14_InputsUnchanged ==
    /\ [][CalculateSummaries => matched' = matched /\ traderData' = traderData]_vars
    /\ [](Summarized =>
            /\ matched = findMatchingTrades(traderData)
            /\ Len(summaries) = Len(traderData)
            /\ \A a \in Addresses : \A n \in 0..MaxTotalTrades :
                  Cardinality({i \in 1..Len(summaries) :
                                  /\ summaries[i].trader = a
                                  /\ summaries[i].totalTrades = n})
                      = Cardinality({k \in TraderEntries(a) :
                                        Len(traderData[k].trades) = n}))

\* A trader with two trades, one of them in no matched market
C14_Witness ==
    /\ Summarized
    /\ Len(matched) = 1
    /\ \E i \in 1..Len(summaries) :
          /\ summaries[i].totalTrades = 2
          /\ summaries[i].matchedTrades = 1
          /\ \E k \in TraderEntries(summaries[i].trader) :
                \E t \in 1..Len(traderData[k].trades) :
                    traderData[k].trades[t].conditionId # matched[1].conditionId

\* rankTraders has returned
Ranked == pc = "ranked"

\* Where the Map handed to rankTraders holds the statistics of address a
InputIndex(a) == CHOOSE k \in 1..Len(traderStats) : traderStats[k].address = a

\* C15: rankTraders outputs a trader if and only if timesFirst >=
\* MIN_FIRST_COUNT or timesInTopN >= 2 * MIN_FIRST_COUNT: every qualifying
\* trader exactly once, with its statistics, and no other trader.
C15_FilterByThreshold ==
    Ranked =>
        /\ \A k \in 1..Len(traderStats) :
              LET t == traderStats[k]
              IN  Cardinality({i \in 1..Len(ranked) : ranked[i] = t})
                      = IF t.timesFirst >= MIN_FIRST_COUNT
                            \/ t.timesInTopN >= 2 * MIN_FIRST_COUNT
                        THEN 1 ELSE 0
        /\ \A i \in 1..Len(ranked) :
              \E k \in 1..Len(traderStats) : traderStats[k] = ranked[i]

\* One trader qualifies by timesFirst alone, one by timesInTopN alone, and a
\* third is left out
C15_Witness ==
    /\ Ranked
    /\ Len(traderStats) = 3
    /\ Len(ranked) = 2
    /\ \E i, j \in 1..2 :
          /\ ranked[i].timesFirst >= MIN_FIRST_COUNT
          /\ ranked[i].timesInTopN < 2 * MIN_FIRST_COUNT
          /\ ranked[j].timesFirst < MIN_FIRST_COUNT
          /\ ranked[j].timesInTopN >= 2 * MIN_FIRST_COUNT

\* JavaScript a >= b on numbers: false when either is NaN
Geq(a, b) == a # NaN /\ b # NaN /\ a >= b

\* C16: the output of rankTraders is in descending lexicographic order of
\* (timesFirst, timesInTopN, totalVolume): of two adjacent traders the first
\* has the larger timesFirst, or the same and the larger timesInTopN, or both
\* the same and a totalVolume at least as large.
C16_SortedByKeys ==
    Ranked =>
        \A k \in 1..Len(ranked) - 1 :
            LET a == ranked[k]
                b == ranked[k + 1]
            IN  \/ a.timesFirst > b.timesFirst
                \/ /\ a.timesFirst = b.timesFirst
                   /\ a.timesInTopN > b.timesInTopN
                \/ /\ a.timesFirst = b.timesFirst
                   /\ a.timesInTopN = b.timesInTopN
                   /\ Geq(a.totalVolume, b.totalVolume)

\* The traders a and b have the same three sort keys
FullTie(a, b) ==
    /\ a.timesFirst = b.timesFirst
    /\ a.timesInTopN = b.timesInTopN
    /\ a.totalVolume = b.totalVolume

\* C17: traders that tie on all three sort keys keep the relative order of
\* the input, and ranking the ranked list again changes nothing.
C17_StableRanking ==
    Ranked =>
        /\ \A i, j \in 1..Len(ranked) :
              i < j /\ FullTie(ranked[i], ranked[j]) =>
                  InputIndex(ranked[i].address) < InputIndex(ranked[j].address)
        /\ rankTraders(ranked) = ranked

\* Some market has two different traders within the window of each other
SomeMarketQualifies ==
    \E c \in Conditions : \E a, b \in Participants(c) :
        a # b /\ Gap(a, b, c) <= TIME_WINDOW_HOURS * 3600

\* C18: empty results are empty sequences: rankTraders returns the empty list
\* when no trader meets the threshold, findMatchingTrades returns the empty
\* list when no market qualifies, and calculateSummaries then still returns
\* one summary per trader, all zero but for the trader's own trade count.
C18_EmptyResultsAreEmptyLists ==
    /\ Ranked /\ (\A k \in 1..Len(traderStats) :
                     /\ traderStats[k].timesFirst < MIN_FIRST_COUNT
                     /\ traderStats[k].timesInTopN < 2 * MIN_FIRST_COUNT)
          => ranked = <<>>
    /\ Matched /\ ~SomeMarketQualifies => matched = <<>>
    /\ Summarized /\ ~SomeMarketQualifies =>
          /\ Len(summaries) = Len(traderData)
          /\ \A i \in 1..Len(summaries) :
                /\ summaries[i].trader = traderData[i].address
                /\ summaries[i].totalTrades = Len(traderData[i].trades)
                /\ summaries[i].matchedTrades = 0
                /\ summaries[i].timesFirst = 0
                /\ summaries[i].avgLeadTimeSeconds = Zero
                /\ summaries[i].avgFollowTimeSeconds = Zero

\* Three traders without a single trade, summarised
C18_Witness ==
    /\ Summarized
    /\ matched = <<>>
    /\ Len(traderData) = 3
    /\ \A k \in 1..3 : traderData[k].trades = <<>>
    /\ Len(summaries) = 3
    /\ \A i \in 1..3 : summaries[i].totalTrades = 0 /\ summaries[i].matchedTrades = 0

\* The trades of a list that have the owner a
TradesOf(trades, a) == SelectSeq(trades, LAMBDA t : t.owner = a)

\* The sum of the usd values of a list of trades, as JavaScript adds them
RECURSIVE SumUsdc(_)
SumUsdc(trades) ==
    IF trades = <<>> THEN 0
    ELSE IF Head(trades).usdcSize = NaN \/ SumUsdc(Tail(trades)) = NaN THEN NaN
    ELSE Head(trades).usdcSize + SumUsdc(Tail(trades))

\* The identified traders of a list of trades
Identified(trades) == {trades[i].owner : i \in 1..Len(trades)} \ {NoOwner}

\* The trades of the list without the records that have no trader
WithOwner(trades) == SelectSeq(trades, LAMBDA t : t.owner # NoOwner)

\* C19: a record without a trader identifier is dropped by the per-market
\* grouping: it makes no entry, takes no position, and adds nothing to a
\* trader's volume or trade count, in analyzeMarkets and in the find-first
\* script; the Map is what the other records alone would have given.
C19_NoTraderRecordDropped ==
    /\ script = "leaders" /\ marketTrades # <<>> =>
          /\ Len(traderFirstTrade) = Cardinality(Identified(marketTrades))
          /\ \A i \in 1..Len(traderFirstTrade) :
                LET e == traderFirstTrade[i]
                IN  /\ e.trader \in Identified(marketTrades)
                    /\ e.position = i
                    /\ e.volume = SumUsdc(TradesOf(marketTrades, e.trader))
          /\ traderFirstTrade = TraderFirstTrade(WithOwner(marketTrades))
          /\ \A k \in 1..Len(traderStats) : traderStats[k].address # NoOwner
    /\ script = "first" /\ pc = "grouped" =>
          /\ Len(traderOrder) = Cardinality(Identified(marketTrades))
          /\ \A i \in 1..Len(traderOrder) :
                LET e == traderOrder[i]
                IN  /\ e.trader \in Identified(marketTrades)
                    /\ e.tradeCount = Len(TradesOf(marketTrades, e.trader))
                    /\ e.totalVolume = SumUsdc(TradesOf(marketTrades, e.trader))
          /\ traderOrder = TraderOrder(WithOwner(marketTrades))

\* A market whose earliest record has no trader: the trader of the second
\* record is first
C19_Witness ==
    /\ script = "leaders"
    /\ Len(marketTrades) = 2
    /\ marketTrades[1].owner = NoOwner
    /\ marketTrades[1].timestamp < marketTrades[2].timestamp
    /\ Len(traderFirstTrade) = 1
    /\ traderFirstTrade[1].position = 1
    /\ traderFirstTrade[1].volume = marketTrades[2].usdcSize
    /\ traderFirstTrade[1].volume # NaN

\* The value is a number other than NaN
IsNumeric(v) == v.kind = "number"

\* The source field is missing or holds no number
MissingOrNonNumeric(v) == v.kind \in {"undefined", "null", "text"}

\* C20: every trade the normalizers produce has a numeric price, size and usd
\* value, and a source field that is missing or not numeric gives 0.
C20_NumericFieldsCoerced ==
    pc = "normalized" =>
        /\ IsNumeric(normalizedTrade.price)
        /\ IsNumeric(normalizedTrade.size)
        /\ IsNumeric(normalizedTrade.usdcSize)
        /\ MissingOrNonNumeric(response.price) => normalizedTrade.price.val = 0
        /\ MissingOrNonNumeric(response.size) => normalizedTrade.size.val = 0
        /\ normalizer = "fetchBatch" /\ MissingOrNonNumeric(response.usdcSize)
              => normalizedTrade.usdcSize.val = 0
        /\ normalizer = "fetchMarketTrades"
              /\ (MissingOrNonNumeric(response.price)
                     \/ MissingOrNonNumeric(response.size))
              => normalizedTrade.usdcSize.val = 0

\* fetchTraderActivity has returned
Returned == script = "activity" /\ pc = "returned"

\* How many copies of trade t the runs hold
RECURSIVE CountOf(_, _)
CountOf(runs, t) ==
    IF runs = <<>> THEN 0
    ELSE (IF Head(runs).trade = t THEN Head(runs).count ELSE 0) + CountOf(Tail(runs), t)

TradesIn(runs) == {runs[k].trade : k \in 1..Len(runs)}

\* C21: a failed page request never propagates: no error leaves
\* fetchTraderActivity, and what it returns are the trades of the batches
\* collected so far: all of them below the limit, and never a trade that was
\* not collected.
C21_FailedPageGivesNoError ==
    script = "activity" =>
        /\ ~threw
        /\ pc # "failed"
        /\ Returned =>
              /\ \A t \in TradesIn(allTrades) \cup TradesIn(received) :
                    CountOf(allTrades, t) <= CountOf(received, t)
              /\ RunsLen(received) < MAX_TRADES_LIMIT =>
                    \A t \in TradesIn(received) :
                        CountOf(allTrades, t) = CountOf(received, t)

\* After a full first page and a full second one the other two requests of
\* the round fail: the 200 trades collected are returned
C21_Witness ==
    /\ Returned
    /\ failedRequests = 2
    /\ RunsLen(allTrades) = 200
    /\ MAX_TRADES_LIMIT = 1000

\* C22: fetchTraderActivity never returns more than MAX_TRADES_LIMIT trades.
C22_AtMostLimit ==
    Returned => RunsLen(allTrades) <= MAX_TRADES_LIMIT

\* C23: the list fetchTraderActivity returns is ascending by timestamp.
C23_SortedByTimestamp ==
    Returned =>
        \A k \in 1..Len(allTrades) - 1 :
            allTrades[k].trade.timestamp <= allTrades[k + 1].trade.timestamp

\* Two pages arrived with the later trades first
C23_Witness ==
    /\ Returned
    /\ Len(received) >= 3
    /\ \E k \in 1..Len(received) - 1 :
          received[k].trade.timestamp > received[k + 1].trade.timestamp
    /\ received[1].trade.timestamp > received[Len(received)].trade.timestamp

\* The passes of the while loop made so far
Rounds == IF offset = 0 THEN 0 ELSE (offset - 100) \div (maxParallel * batchSize)

\* C26: the pagination loop ends: a pass either stops the loop or has added
\* maxParallel full batches, every pass moves the offset on, and a pass
\* starts only below the limit, which bounds the number of passes.
C26_RoundsBounded ==
    /\ [](script = "activity" /\ pc = "paging" =>
            /\ hasMore /\ RunsLen(allTrades) < MAX_TRADES_LIMIT
                  => RunsLen(allTrades) = 100 + Rounds * maxParallel * batchSize
            /\ Rounds >= 1 =>
                  100 + (Rounds - 1) * maxParallel * batchSize < MAX_TRADES_LIMIT)
    /\ [][FetchRound => /\ offset' = offset + maxParallel * batchSize
                        /\ \/ ~hasMore'
                           \/ RunsLen(allTrades') = RunsLen(allTrades)
                                                       + maxParallel * batchSize]_vars

\* Three passes of full pages reach the default limit of 1000
C26_Witness ==
    /\ Returned
    /\ MAX_TRADES_LIMIT = 1000
    /\ Rounds = 3
    /\ RunsLen(allTrades) = 1000

\* The index of the first trade of trader a in a list of trades
FirstTradeIndex(trades, a) == FirstIndex({i \in 1..Len(trades) : trades[i].owner = a})

\* The identified traders whose first trade comes no later in the list than
\* the first trade of a
AppearedUpTo(trades, a) ==
    {b \in Identified(trades) : FirstTradeIndex(trades, b) <= FirstTradeIndex(trades, a)}

\* C24: in the per-market grouping, the entry of a trader keeps what the
\* trader's first trade gave it (timestamp and position in analyzeMarkets, the
\* whole first trade in the find-first script) whatever trades of the trader
\* follow; the later trades only add to the volume and, where the entry has
\* one, to the trade count.
C24_LaterTradesOnlyAccumulate ==
    /\ script = "leaders" /\ marketTrades # <<>> =>
          \A i \in 1..Len(traderFirstTrade) :
             LET e   == traderFirstTrade[i]
                 own == TradesOf(marketTrades, e.trader)
             IN  /\ e.timestamp = own[1].timestamp
                 /\ e.position = Cardinality(AppearedUpTo(marketTrades, e.trader))
                 /\ e.volume = SumUsdc(own)
    /\ script = "first" /\ pc = "grouped" =>
          \A i \in 1..Len(traderOrder) :
             LET e   == traderOrder[i]
                 own == TradesOf(marketTrades, e.trader)
             IN  /\ e.firstTrade = marketTrades[FirstTradeIndex(marketTrades, e.trader)]
                 /\ e.tradeCount = Len(own)
                 /\ e.totalVolume = SumUsdc(own)

\* A trader with three trades of different times and sizes: the entry keeps
\* the first trade and holds the count and the sum of all three
C24_Witness ==
    /\ script = "first" /\ pc = "grouped"
    /\ Len(marketTrades) = 3
    /\ \E i \in 1..Len(traderOrder) :
          LET e == traderOrder[i]
          IN  /\ e.tradeCount = 3
              /\ e.firstTrade = marketTrades[1]
              /\ marketTrades[1].timestamp < marketTrades[3].timestamp
              /\ marketTrades[1].usdcSize = 1
              /\ marketTrades[3].usdcSize = 2
              /\ e.totalVolume = 1 + marketTrades[2].usdcSize + 2

\* The sum of timesFirst over the traders of traderStats
TimesFirstTotal(stats) == SumSeq([k \in 1..Len(stats) |-> stats[k].timesFirst])

\* The positions of traderFirstTrade are 1..k in order of first appearance
PositionsInOrder ==
    /\ Len(traderFirstTrade) = Cardinality(Identified(marketTrades))
    /\ \A i \in 1..Len(traderFirstTrade) : traderFirstTrade[i].position = i
    /\ \A i, j \in 1..Len(traderFirstTrade) :
          i < j => /\ traderFirstTrade[i].timestamp <= traderFirstTrade[j].timestamp
                   /\ traderFirstTrade[i].trader # traderFirstTrade[j].trader
                   /\ FirstTradeIndex(marketTrades, traderFirstTrade[i].trader)
                         < FirstTradeIndex(marketTrades, traderFirstTrade[j].trader)

\* C25 as stated: in every market analyzeMarkets processes, the positions are
\* 1..k in order of first appearance and exactly one trader has position 1.
C25_ExactlyOneFirstInEveryMarket ==
    script = "leaders" /\ marketTrades # <<>> =>
        /\ PositionsInOrder
        /\ Cardinality({i \in 1..Len(traderFirstTrade) :
                            traderFirstTrade[i].position = 1}) = 1

\* C25: in every market analyzeMarkets processes, the positions of the k
\* identified traders are 1..k in order of first appearance; when k >= 1
\* exactly one trader has position 1 and the market adds one to timesFirst of
\* exactly one trader, and when no trade of the market has a trader no
\* position is assigned and no timesFirst changes.
C25_OneFirstPerIdentifiedMarket ==
    /\ [](script = "leaders" /\ marketTrades # <<>> =>
            /\ PositionsInOrder
            /\ Cardinality({i \in 1..Len(traderFirstTrade) :
                                traderFirstTrade[i].position = 1})
                  = IF Identified(marketTrades) = {} THEN 0 ELSE 1)
    /\ [][script = "leaders" /\ pc = "awaiting trades" /\ pc' = "analyzing"
            /\ marketTrades' # <<>> =>
            /\ TimesFirstTotal(traderStats')
                  = TimesFirstTotal(traderStats)
                      + IF Identified(marketTrades') = {} THEN 0 ELSE 1
            /\ \A k \in 1..Len(traderStats) :
                  traderStats'[k].timesFirst =
                     traderStats[k].timesFirst
                       + IF traderFirstTrade' # <<>>
                            /\ traderFirstTrade'[1].trader = traderStats[k].address
                         THEN 1 ELSE 0]_vars

\* A second market with two traders: the one first in it, second in the
\* market before, is the only one whose timesFirst grows
C25_Witness ==
    /\ script = "leaders"
    /\ processedMarkets = 2
    /\ Len(traderFirstTrade) = 2
    /\ traderFirstTrade[1].timestamp < traderFirstTrade[2].timestamp
    /\ Len(traderStats) = 2
    /\ traderStats[1].address = traderFirstTrade[2].trader
    /\ traderStats[1].timesFirst = 1
    /\ traderStats[2].timesFirst = 1
    /\ traderStats[1].tradeCount = 2

\* A processed market none of whose trades has a trader
C25_NoIdentifiedTrader ==
    /\ script = "leaders"
    /\ marketTrades # <<>>
    /\ Identified(marketTrades) = {}
    /\ traderFirstTrade = <<>>

\* main was given each address once
DistinctAddresses ==
    \A i, j \in 1..Len(traderData) :
        traderData[i].address = traderData[j].address => i = j

\* The traders of the summaries
Summarised == {summaries[i].trader : i \in 1..Len(summaries)}

\* C27: when the addresses are pairwise distinct, the timesFirst of all
\* summaries add up to the number of gap records of all matched markets: each
\* record is a lead of exactly one summarised trader and a follow of exactly
\* one other.
C27_LeadsAddUpToGapRecords ==
    Summarized /\ DistinctAddresses =>
        /\ SumSeq([i \in 1..Len(summaries) |-> summaries[i].timesFirst])
              = Cardinality(GapRecords)
        /\ \A p \in GapRecords :
              /\ Cardinality({a \in Summarised : p \in LeadRecords(a)}) = 1
              /\ Cardinality({a \in Summarised : p \in FollowRecords(a)}) = 1
              /\ {a \in Summarised : p \in LeadRecords(a)}
                    # {a \in Summarised : p \in FollowRecords(a)}

\* Three traders in one market: three gap records, two led by one trader and
\* one by another
C27_Witness ==
    /\ Summarized /\ DistinctAddresses
    /\ Len(matched) = 1
    /\ Cardinality(GapRecords) = 3
    /\ Len(summaries) = 3
    /\ summaries[1].timesFirst = 2
    /\ summaries[2].timesFirst = 1
    /\ summaries[3].timesFirst = 0

\* C28: timesFirst of a summary never exceeds its matchedTrades, so the
\* percentage printResults shows is at most 100.
C28_FirstNeverExceedsMatched ==
    Summarized =>
        \A i \in 1..Len(summaries) :
            summaries[i].timesFirst <= summaries[i].matchedTrades

\* The orders in which n traders can be supplied
SupplyOrders(n) == {f \in [1..n -> 1..n] : \A i, j \in 1..n : f[i] = f[j] => i = j}

\* The trader list in the order f
Permuted(td, f) == [k \in 1..Len(td) |-> td[f[k]]]

\* What a matched list says of each pair of traders in each market
PairRecords(ms) ==
    UNION {{[conditionId |-> ms[k].conditionId,
             pair        |-> {ms[k].timeDiffs[i].trader1, ms[k].timeDiffs[i].trader2},
             leader      |-> ms[k].timeDiffs[i].leader,
             gap         |-> Abs(ms[k].timeDiffs[i].diffSeconds)] :
               i \in 1..Len(ms[k].timeDiffs)} :
           k \in 1..Len(ms)}

\* The same, with the leader left out where the two first touches are equal
PairRecordsUpToTies(ms) ==
    {[r EXCEPT !.leader = IF r.gap = 0 THEN "tie" ELSE r.leader] : r \in PairRecords(ms)}

\* The place in the trader list of the first entry of address a that holds a
\* trade of market c
FirstSupplied(td, a, c) ==
    FirstIndex({k \in 1..Len(td) :
                   /\ td[k].address = a
                   /\ \E i \in 1..Len(td[k].trades) : td[k].trades[i].conditionId = c})

\* In every tied record of ms the leader is, of the two, the trader whose
\* trades of the market come later in td
TiesLedByLaterSupplied(ms, td) ==
    \A r \in PairRecords(ms) :
        r.gap = 0 =>
            \A a \in r.pair :
                FirstSupplied(td, a, r.conditionId)
                    <= FirstSupplied(td, r.leader, r.conditionId)

\* C29 as stated: in whatever order the traders are supplied,
\* findMatchingTrades matches the same markets and gives every pair of
\* traders in a market a record with the same leader and the same absolute
\* gap.
C29_OrderIndependent ==
    Matched =>
        \A f \in SupplyOrders(Len(traderData)) :
            LET other == findMatchingTrades(Permuted(traderData, f))
            IN  /\ {other[k].conditionId : k \in 1..Len(other)} = MatchedConditions
                /\ PairRecords(other) = PairRecords(matched)

\* C29: in whatever order the traders are supplied, findMatchingTrades
\* matches the same markets and gives every pair of traders in a market a
\* record with the same absolute gap and, when the two first touches differ,
\* the same leader; when they are equal the leader is the one of the two
\* whose trades of that market come later in the supplied list, so it changes
\* with the order.
C29_OrderIndependentUpToTies ==
    Matched =>
        \A f \in SupplyOrders(Len(traderData)) :
            LET other == findMatchingTrades(Permuted(traderData, f))
            IN  /\ {other[k].conditionId : k \in 1..Len(other)} = MatchedConditions
                /\ PairRecordsUpToTies(other) = PairRecordsUpToTies(matched)
                /\ TiesLedByLaterSupplied(other, Permuted(traderData, f))

\* Three traders in one market: a record led by the trader supplied
\* earlier, a record led by the trader supplied later, both with a gap, so
\* that every reordering turns some pair around
C29_Witness ==
    /\ Matched /\ DistinctAddresses
    /\ Len(traderData) = 3
    /\ \E p, q \in GapRecords :
          /\ p[1] = q[1]
          /\ Rec(p).diffSeconds > 0 /\ Rec(p).leader = Rec(p).trader1
          /\ Rec(q).diffSeconds < 0 /\ Rec(q).leader = Rec(q).trader2

====
